---------------------------- MODULE Spec2Model ----------------------------
(***************************************************************************)
(* bookast: one run of main() over one directory.                          *)
(*                                                                         *)
(* Strings are sequences of one-character strings, so that extensions,     *)
(* byte order, percent-encoding and number formatting are computed and     *)
(* not assumed.  Times are integers in milliseconds: the clock and the     *)
(* publication timestamps since an arbitrary origin, durations from 0.     *)
(***************************************************************************)
EXTENDS Integers, Sequences, FiniteSets, TLC

(***************************************************************************)
(* Bytes.  Printable[i] is the character with byte value i + 31 (byte 96   *)
(* is written "GRAVE").                                                    *)
(***************************************************************************)
Printable ==
    << " ", "!", "\"", "#", "$", "%", "&", "'", "(", ")", "*", "+", ",", "-", ".", "/",
       "0", "1", "2", "3", "4", "5", "6", "7", "8", "9", ":", ";", "<", "=", ">", "?",
       "@", "A", "B", "C", "D", "E", "F", "G", "H", "I", "J", "K", "L", "M", "N", "O",
       "P", "Q", "R", "S", "T", "U", "V", "W", "X", "Y", "Z", "[", "\\", "]", "^", "_",
       "GRAVE", "a", "b", "c", "d", "e", "f", "g", "h", "i", "j", "k", "l", "m", "n", "o",
       "p", "q", "r", "s", "t", "u", "v", "w", "x", "y", "z", "{", "|", "}", "~" >>

CodeTable ==
    [ c \in { Printable[i] : i \in 1..Len(Printable) } |->
        31 + CHOOSE i \in 1..Len(Printable) : Printable[i] = c ]

Code(c) == CodeTable[c]

Chr(n) == Printable[n - 31]

\* Go string comparison a < b: byte-wise lexicographic, a proper prefix first.
RECURSIVE StrLess(_, _)
StrLess(a, b) ==
    IF b = <<>> THEN FALSE
    ELSE IF a = <<>> THEN TRUE
    ELSE IF Head(a) = Head(b) THEN StrLess(Tail(a), Tail(b))
    ELSE Code(Head(a)) < Code(Head(b))

\* strings.ToLower on the bytes the model uses (ASCII).
LowerChar(c) == IF Code(c) >= 65 /\ Code(c) <= 90 THEN Chr(Code(c) + 32) ELSE c

ToLower(s) == [i \in 1..Len(s) |-> LowerChar(s[i])]

HasSuffix(s, suffix) ==
    /\ Len(s) >= Len(suffix)
    /\ SubSeq(s, Len(s) - Len(suffix) + 1, Len(s)) = suffix

TrimSuffix(s, suffix) ==
    IF HasSuffix(s, suffix) THEN SubSeq(s, 1, Len(s) - Len(suffix)) ELSE s

\* filepath.Ext: the suffix that starts at the last dot of the last path
\* element, empty when that element has no dot.
Ext(path) ==
    LET dots == {i \in 1..Len(path) :
                    /\ path[i] = "."
                    /\ \A j \in i..Len(path) : path[j] /= "/"}
    IN  IF dots = {} THEN <<>>
        ELSE LET i == CHOOSE k \in dots : \A m \in dots : m <= k
             IN  SubSeq(path, i, Len(path))

\* filepath.Base: the last element of the path, trailing slashes removed;
\* "." for the empty path and "/" for a path of slashes only.
RECURSIVE StripTrailingSlashes(_)
StripTrailingSlashes(p) ==
    IF Len(p) > 0 /\ p[Len(p)] = "/"
    THEN StripTrailingSlashes(SubSeq(p, 1, Len(p) - 1))
    ELSE p

Base(path) ==
    IF path = <<>> THEN <<".">>
    ELSE LET p == StripTrailingSlashes(path)
             slashes == {i \in 1..Len(p) : p[i] = "/"}
         IN  IF p = <<>> THEN <<"/">>
             ELSE IF slashes = {} THEN p
             ELSE LET i == CHOOSE k \in slashes : \A m \in slashes : m <= k
                  IN  SubSeq(p, i + 1, Len(p))


(***************************************************************************)
(* Library functions the program calls.                                    *)
(***************************************************************************)
\* sort.Strings: ascending byte order.
RECURSIVE Insert(_, _)
Insert(x, s) ==
    IF s = <<>> THEN <<x>>
    ELSE IF StrLess(x, Head(s)) THEN <<x>> \o s
    ELSE <<Head(s)>> \o Insert(x, Tail(s))

RECURSIVE SortStrings(_)
SortStrings(s) == IF s = <<>> THEN <<>> ELSE Insert(Head(s), SortStrings(Tail(s)))

\* url.PathEscape, mode encodePathSegment: letters, digits, - _ . ~ and
\* $ & + : = @ pass; every other byte, with / ; , ? among them, becomes
\* %XX in upper-case hexadecimal.
\* shouldEscape letting the percent sign pass.
shouldEscape_PercentPasses(c) ==
    IF \/ (Code(c) >= 97 /\ Code(c) <= 122)
       \/ (Code(c) >= 65 /\ Code(c) <= 90)
       \/ (Code(c) >= 48 /\ Code(c) <= 57)
    THEN FALSE
    ELSE IF c \in {"-", "_", ".", "~", "%"} THEN FALSE
    ELSE IF c \in {"$", "&", "+", ",", "/", ":", ";", "=", "?", "@"}
         THEN c \in {"/", ";", ",", "?"}
    ELSE TRUE

shouldEscape(c) ==
    IF \/ (Code(c) >= 97 /\ Code(c) <= 122)
       \/ (Code(c) >= 65 /\ Code(c) <= 90)
       \/ (Code(c) >= 48 /\ Code(c) <= 57)
    THEN FALSE
    ELSE IF c \in {"-", "_", ".", "~"} THEN FALSE
    ELSE IF c \in {"$", "&", "+", ",", "/", ":", ";", "=", "?", "@"}
         THEN c \in {"/", ";", ",", "?"}
    ELSE TRUE

UpperHex == << "0", "1", "2", "3", "4", "5", "6", "7", "8", "9", "A", "B", "C", "D", "E", "F" >>

RECURSIVE PathEscape(_)
PathEscape(s) ==
    IF s = <<>> THEN <<>>
    ELSE (IF shouldEscape(Head(s))
          THEN << "%", UpperHex[(Code(Head(s)) \div 16) + 1], UpperHex[(Code(Head(s)) % 16) + 1] >>
          ELSE << Head(s) >>) \o PathEscape(Tail(s))

\* fmt.Sprintf("%d") and ("%02d") of a natural number.
Digits == << "0", "1", "2", "3", "4", "5", "6", "7", "8", "9" >>

RECURSIVE Itoa(_)
Itoa(n) == IF n < 10 THEN << Digits[n + 1] >> ELSE Itoa(n \div 10) \o << Digits[(n % 10) + 1] >>

Pad2(n) == IF n < 10 THEN <<"0">> \o Itoa(n) ELSE Itoa(n)

\* time.Second, time.Minute, time.Hour in the model's unit, the millisecond.
Second == 1000

Minute == 60 * Second

Hour == 60 * Minute

\* Time.Format(time.RFC1123Z) keeps the whole seconds of a time.
FormatTime(t) == t \div Second

(***************************************************************************)
(* Pure functions of main.go.                                              *)
(***************************************************************************)
Str_mp3 == << ".", "m", "p", "3" >>
Str_m4a == << ".", "m", "4", "a" >>
Str_m4b == << ".", "m", "4", "b" >>
Str_aac == << ".", "a", "a", "c" >>
Str_flac == << ".", "f", "l", "a", "c" >>
Str_ogg == << ".", "o", "g", "g" >>
Str_jpg == << ".", "j", "p", "g" >>
Str_jpeg == << ".", "j", "p", "e", "g" >>
Str_png == << ".", "p", "n", "g" >>

supportedAudioExts == { Str_mp3, Str_m4a, Str_m4b, Str_aac, Str_flac, Str_ogg }

supportedImageExts == { Str_jpg, Str_jpeg, Str_png }

\* formatDuration without the % 60 on the minutes.
formatDuration_MinutesNotReduced(d) ==
    LET hours == d \div Hour
        minutes == d \div Minute
        seconds == (d \div Second) % 60
    IN  IF hours > 0
        THEN Itoa(hours) \o <<":">> \o Pad2(minutes) \o <<":">> \o Pad2(seconds)
        ELSE Itoa(minutes) \o <<":">> \o Pad2(seconds)

formatDuration(d) ==
    LET hours == d \div Hour
        minutes == (d \div Minute) % 60
        seconds == (d \div Second) % 60
    IN  IF hours > 0
        THEN Itoa(hours) \o <<":">> \o Pad2(minutes) \o <<":">> \o Pad2(seconds)
        ELSE Itoa(minutes) \o <<":">> \o Pad2(seconds)

getMimeType(filePath) ==
    LET ext == ToLower(Ext(filePath))
    IN  IF ext = Str_mp3 THEN "audio/mpeg"
        ELSE IF ext \in {Str_m4a, Str_m4b} THEN "audio/mp4"
        ELSE IF ext = Str_aac THEN "audio/aac"
        ELSE IF ext = Str_flac THEN "audio/flac"
        ELSE IF ext = Str_ogg THEN "audio/ogg"
        ELSE "audio/mpeg"

\* strings.TrimSuffix(baseURL, "/") + "/" + url.PathEscape(filepath.Base(dir))
\*   + "/" + url.PathEscape(name)
fileURL(baseURL, baseDir, name) ==
    TrimSuffix(baseURL, <<"/">>) \o <<"/">> \o PathEscape(Base(baseDir))
        \o <<"/">> \o PathEscape(name)

\* filepath.Join(dir, name) for a directory path without "." or ".." or
\* doubled slashes and a name that is one path element.
Join(dir, name) ==
    IF dir /= <<>> /\ StripTrailingSlashes(dir) = <<>> THEN <<"/">> \o name
    ELSE StripTrailingSlashes(dir) \o <<"/">> \o name

Str_iTunPGAP == << "i", "T", "u", "n", "P", "G", "A", "P" >>

\* processAudioFile without the comparison of the comment to "iTunPGAP".
processAudioFile_NoPlaceholder(filePath, baseURL, baseDir, pubDate, episodeNum, meta) ==
    LET filename == Base(filePath)
        title == IF meta.title = <<>>
                 THEN TrimSuffix(filename, Ext(filename))
                 ELSE meta.title
        description == IF meta.comment /= <<>> THEN meta.comment ELSE title
    IN  [ Title |-> title,
          Description |-> description,
          FilePath |-> filePath,
          Duration |-> meta.duration,
          FileSize |-> meta.size,
          PubDate |-> pubDate,
          URL |-> fileURL(baseURL, baseDir, filename),
          EpisodeNum |-> episodeNum ]

\* processAudioFile once the file has been opened, its tags parsed and its
\* duration probed: meta holds the tag's title and comment, the probed
\* duration and the file size.
processAudioFile(filePath, baseURL, baseDir, pubDate, episodeNum, meta) ==
    LET filename == Base(filePath)
        title == IF meta.title = <<>>
                 THEN TrimSuffix(filename, Ext(filename))
                 ELSE meta.title
        description == IF meta.comment /= <<>> /\ meta.comment /= Str_iTunPGAP
                       THEN meta.comment
                       ELSE title
    IN  [ Title |-> title,
          Description |-> description,
          FilePath |-> filePath,
          Duration |-> meta.duration,
          FileSize |-> meta.size,
          PubDate |-> pubDate,
          URL |-> fileURL(baseURL, baseDir, filename),
          EpisodeNum |-> episodeNum ]

\* generateRSS: one item per episode; the duration element is left out
\* (omitempty) unless the duration is above zero.
Item(ep) ==
    [ Title |-> ep.Title,
      Description |-> ep.Description,
      PubDate |-> FormatTime(ep.PubDate),
      ItunesEpisode |-> ep.EpisodeNum,
      ItunesDuration |-> IF ep.Duration > 0 THEN << formatDuration(ep.Duration) >> ELSE <<>>,
      Enclosure |-> [ URL |-> ep.URL, Length |-> ep.FileSize, Type |-> getMimeType(ep.FilePath) ],
      GUID |-> ep.URL ]

\* The document generateRSS marshals; ItunesImage is left out (omitempty)
\* when the podcast has no cover-art URL.
RSSDocument(p, buildTime) ==
    [ Version |-> "2.0",
      Channel |->
        [ Title |-> p.Title,
          Description |-> p.Description,
          Language |-> "en-us",
          ItunesType |-> "serial",
          ItunesImage |-> IF p.CoverArtURL /= <<>> THEN << [Href |-> p.CoverArtURL] >> ELSE <<>>,
          LastBuildDate |-> FormatTime(buildTime),
          Items |-> [ k \in 1..Len(p.Episodes) |-> Item(p.Episodes[k]) ] ] ]

\* generateRSS returns the empty string when xml.MarshalIndent fails, the
\* header and the marshalled document otherwise.  A file's content is a
\* sequence of documents: empty for "", one document for a feed.
generateRSS(p, buildTime, marshalFails) ==
    IF marshalFails THEN <<>> ELSE << RSSDocument(p, buildTime) >>


(***************************************************************************)
(* Inputs: command lines, directory contents, file contents.               *)
(***************************************************************************)
\* The largest number of entries in the scanned directory, podcast.rss
\* not counted.
MaxEntries == 3

File(name) == [ name |-> name, isDir |-> FALSE ]

Dir(name) == [ name |-> name, isDir |-> TRUE ]

Name_mp3 == << ".", "m", "p", "3" >>
Name_B == << "B", ".", "M", "4", "A" >>
Name_cd == << "c", " ", "d", ".", "m", "4", "b" >>
Name_pct == << "%", "2", "0", ".", "a", "a", "c" >>
Name_e == << "e", ".", "f", "l", "a", "c" >>
Name_1x == << "1", ".", "x", ".", "o", "g", "g" >>
Name_g == << "g", ".", "j", "p", "g" >>
Name_H == << "H", ".", "J", "P", "E", "G" >>
Name_i == << "i", ".", "p", "n", "g" >>
Name_noext == << "m", "p", "3" >>
Name_Adir == << "A", ".", "p", "n", "g" >>
Name_kdir == << "k", ".", "m", "p", "3" >>
Name_rss == << "p", "o", "d", "c", "a", "s", "t", ".", "r", "s", "s" >>

AudioNames == { Name_mp3, Name_B, Name_cd, Name_pct, Name_e, Name_1x }

\* The entries a directory is drawn from: names are distinct, as in any
\* directory.
EntryPool ==
    { File(n) : n \in AudioNames \cup { Name_g, Name_H, Name_i, Name_noext } }
        \cup { Dir(Name_Adir), Dir(Name_kdir) }

Str_T == << "T" >>
Str_Hi == << "H", "i" >>
Str_itunpgap == << "i", "t", "u", "n", "p", "g", "a", "p" >>

Meta(title, comment, duration) ==
    [ title |-> title, comment |-> comment, duration |-> duration, size |-> 7 ]

\* The tags and the probed duration of each audio file of the pool.
Fixture ==
    [ n \in AudioNames |->
        IF n = Name_mp3 THEN Meta(<<>>, <<>>, 0)
        ELSE IF n = Name_B THEN Meta(Str_T, Str_iTunPGAP, 45 * Second)
        ELSE IF n = Name_cd THEN Meta(<<>>, Str_Hi, 3725 * Second)
        ELSE IF n = Name_pct THEN Meta(Str_T, <<>>, 1)
        ELSE IF n = Name_e THEN Meta(Str_T, Str_Hi, Hour)
        ELSE Meta(<<>>, Str_iTunPGAP, Minute - 1) ]

Titles == { <<>>, Str_T }

Comments == { <<>>, Str_iTunPGAP, Str_itunpgap, Str_Hi }

Durations ==
    { 0, 1, Second - 1, 45 * Second, Minute - 1, Minute,
      5 * Minute + 23 * Second, 12 * Minute + 5 * Second, Hour - 1, Hour,
      3725 * Second, 2 * Hour + 34 * Minute + 56 * Second,
      10 * Hour + 30 * Minute + 45 * Second, 100 * Hour + 59 * Minute + 59 * Second }

Url_h == << "h", ":", "/", "x" >>
Url_hs == << "h", ":", "/", "x", "/" >>

BaseURLs == { <<>>, Url_h, Url_hs }

Dir_bk == << "b", "k" >>
Dir_my == << "/", "s", "/", "m", "y", " ", "d", "i", "r", "/" >>
Dir_root == << "/" >>

Directories == { Dir_bk, Dir_my, Dir_root }

\* The positional arguments of a command line.
ArgLists == { <<>>, << Dir_bk, Dir_my >> } \cup { << d >> : d \in Directories }

\* What opening, tag parsing and probing of one file can come to.
Faults == { "none", "open", "tag", "probe" }

\* The time one file's processing can take.
Elapsed == { 0, 1500 }

StartTimes == { 2750 }

\* A podcast.rss left by an earlier run.
OldFeed ==
    << [ Version |-> "2.0",
         Channel |-> [ Title |-> << "o", "l", "d" >>, Description |-> <<>>,
                       Language |-> "en-us", ItunesType |-> "serial",
                       ItunesImage |-> <<>>, LastBuildDate |-> 0, Items |-> <<>> ] ] >>

NoFile == [ exists |-> FALSE, content |-> <<>> ]

(***************************************************************************)
(* State.                                                                  *)
(***************************************************************************)
VARIABLES
    pc,            \* where main is
    baseURL,       \* --base-url
    args,          \* the positional arguments
    dirState,      \* the directory: "missing", "unreadable" or "ok"
    files,         \* the directory's entries other than podcast.rss
    meta,          \* audio file name -> its tags, duration and size
    rssFile,       \* podcast.rss in the directory
    rssBefore,     \* podcast.rss as the run found it
    clock,         \* time.Now()
    now,           \* scanDirectory's now
    audioFiles,    \* scanDirectory's audioFiles
    coverArtFile,  \* scanDirectory's coverArtFile
    podcast,       \* scanDirectory's podcast
    mainPodcast,   \* main's podcast: <<>> for nil
    err,           \* main's err after scanDirectory: <<>> for nil
    rssContent,    \* main's rssContent
    opened,        \* the files os.Open was called on
    probed,        \* the files ffprobe was run on
    listed,        \* whether os.ReadDir was called on the directory
    run,           \* 1 in the first run over the directory, 2 in the second
    firstRun,      \* in the second run, << what the first run found >>
    exitCode,      \* the exit code, -1 while running
    outcome        \* what ended the run

vars == << pc, baseURL, args, dirState, files, meta, rssFile, rssBefore, clock, now,
           audioFiles, coverArtFile, podcast, mainPodcast, err, rssContent, opened,
           probed, listed, run, firstRun, exitCode, outcome >>

disk == << dirState, files, meta >>

scanLocals == << now, audioFiles, coverArtFile, podcast >>

runs == << run, firstRun >>

\* os.ReadDir: the directory's entries sorted by filename.
RECURSIVE SortEntries(_)
SortEntries(S) ==
    IF S = {} THEN <<>>
    ELSE LET first == CHOOSE e \in S : \A f \in S : f = e \/ StrLess(e.name, f.name)
         IN  << first >> \o SortEntries(S \ {first})

ReadDir ==
    SortEntries(files \cup (IF rssFile.exists THEN { File(Name_rss) } ELSE {}))

\* scanDirectory's classification loop over entries[1..k]: the audio file
\* names in listing order and the cover-art file name.
\* Classify comparing the extension without strings.ToLower.
RECURSIVE Classify_CaseSensitive(_, _)
Classify_CaseSensitive(entries, k) ==
    IF k = 0 THEN [ audioFiles |-> <<>>, coverArtFile |-> <<>> ]
    ELSE LET prev == Classify_CaseSensitive(entries, k - 1)
             entry == entries[k]
             ext == Ext(entry.name)
         IN  IF entry.isDir THEN prev
             ELSE IF ext \in supportedAudioExts
                  THEN [ prev EXCEPT !.audioFiles = Append(@, entry.name) ]
             ELSE IF ext \in supportedImageExts /\ prev.coverArtFile = <<>>
                  THEN [ prev EXCEPT !.coverArtFile = entry.name ]
             ELSE prev

\* Classify without the coverArtFile == "" check: the last image wins.
RECURSIVE Classify_LastImage(_, _)
Classify_LastImage(entries, k) ==
    IF k = 0 THEN [ audioFiles |-> <<>>, coverArtFile |-> <<>> ]
    ELSE LET prev == Classify_LastImage(entries, k - 1)
             entry == entries[k]
             ext == ToLower(Ext(entry.name))
         IN  IF entry.isDir THEN prev
             ELSE IF ext \in supportedAudioExts
                  THEN [ prev EXCEPT !.audioFiles = Append(@, entry.name) ]
             ELSE IF ext \in supportedImageExts
                  THEN [ prev EXCEPT !.coverArtFile = entry.name ]
             ELSE prev

\* Classify taking every file that is not audio for cover art.
RECURSIVE Classify_AnyOtherFileIsCover(_, _)
Classify_AnyOtherFileIsCover(entries, k) ==
    IF k = 0 THEN [ audioFiles |-> <<>>, coverArtFile |-> <<>> ]
    ELSE LET prev == Classify_AnyOtherFileIsCover(entries, k - 1)
             entry == entries[k]
             ext == ToLower(Ext(entry.name))
         IN  IF entry.isDir THEN prev
             ELSE IF ext \in supportedAudioExts
                  THEN [ prev EXCEPT !.audioFiles = Append(@, entry.name) ]
             ELSE IF prev.coverArtFile = <<>>
                  THEN [ prev EXCEPT !.coverArtFile = entry.name ]
             ELSE prev

RECURSIVE Classify(_, _)
Classify(entries, k) ==
    IF k = 0 THEN [ audioFiles |-> <<>>, coverArtFile |-> <<>> ]
    ELSE LET prev == Classify(entries, k - 1)
             entry == entries[k]
             ext == ToLower(Ext(entry.name))
         IN  IF entry.isDir THEN prev
             ELSE IF ext \in supportedAudioExts
                  THEN [ prev EXCEPT !.audioFiles = Append(@, entry.name) ]
             ELSE IF ext \in supportedImageExts /\ prev.coverArtFile = <<>>
                  THEN [ prev EXCEPT !.coverArtFile = entry.name ]
             ELSE prev

directory == args[1]

Exit(code, why) ==
    /\ pc' = "exit"
    /\ exitCode' = code
    /\ outcome' = why

Running(next) ==
    /\ pc' = next
    /\ UNCHANGED << exitCode, outcome >>

DirectoryStates ==
    { [ dirState |-> "ok", files |-> S, rssFile |-> r ] :
        S \in { T \in SUBSET EntryPool : Cardinality(T) <= MaxEntries },
        r \in { NoFile, [ exists |-> TRUE, content |-> OldFeed ] } }
    \cup { [ dirState |-> s, files |-> {}, rssFile |-> NoFile ] : s \in { "missing", "unreadable" } }

Started(d, m, t) ==
    /\ pc = "main"
    /\ baseURL = <<>>
    /\ args = <<>>
    /\ dirState = d.dirState
    /\ files = d.files
    /\ meta = m
    /\ rssFile = d.rssFile
    /\ rssBefore = d.rssFile
    /\ clock = t
    /\ now = 0
    /\ audioFiles = <<>>
    /\ coverArtFile = <<>>
    /\ podcast = [ Title |-> <<>>, Description |-> <<>>, Episodes |-> <<>>, CoverArtURL |-> <<>> ]
    /\ mainPodcast = <<>>
    /\ err = <<>>
    /\ rssContent = <<>>
    /\ opened = {}
    /\ probed = {}
    /\ listed = FALSE
    /\ run = 1
    /\ firstRun = <<>>
    /\ exitCode = -1
    /\ outcome = "running"

\* A run over any directory of the pool.
Init == \E d \in DirectoryStates, t \in StartTimes : Started(d, Fixture, t)

\* A run over a directory that holds one audio file, of any content.
InitFile ==
    \E n \in AudioNames, ti \in Titles, co \in Comments, du \in Durations, t \in StartTimes :
        Started([ dirState |-> "ok", files |-> { File(n) }, rssFile |-> NoFile ],
                [ a \in AudioNames |-> Meta(ti, co, du) ], t)

(***************************************************************************)
(* main, step by step.                                                     *)
(***************************************************************************)
\* The command lines a run can be started with: any in the first run, the
\* first run's in the second.
CommandLines ==
    IF run = 1
    THEN { [ baseURL |-> b, args |-> a ] : b \in BaseURLs, a \in ArgLists }
    ELSE { [ baseURL |-> firstRun[1].baseURL, args |-> firstRun[1].args ] }

\* CheckArguments without the os.Stat check of the directory.
CheckArguments_NoStat ==
    /\ pc = "main"
    /\ \E c \in CommandLines :
        /\ baseURL' = c.baseURL
        /\ args' = c.args
        /\ IF c.baseURL = <<>> THEN Exit(1, "base-url required")
           ELSE IF Len(c.args) /= 1 THEN Exit(1, "usage")
           ELSE Running("scanDirectory")
    /\ UNCHANGED << listed, runs >>
    /\ UNCHANGED << disk, rssFile, rssBefore, clock, scanLocals, mainPodcast, err,
                    rssContent, opened, probed >>

\* main, lines 75-94: the flags, the arity, os.Stat of the directory.
CheckArguments ==
    /\ pc = "main"
    /\ \E c \in CommandLines :
        /\ baseURL' = c.baseURL
        /\ args' = c.args
        /\ IF c.baseURL = <<>> THEN Exit(1, "base-url required")
           ELSE IF Len(c.args) /= 1 THEN Exit(1, "usage")
           ELSE IF dirState = "missing" THEN Exit(1, "directory does not exist")
           ELSE Running("scanDirectory")
    /\ UNCHANGED << listed, runs >>
    /\ UNCHANGED << disk, rssFile, rssBefore, clock, scanLocals, mainPodcast, err,
                    rssContent, opened, probed >>

Str_DescPrefix ==
    << "A", "u", "d", "i", "o", "b", "o", "o", "k", " ", "p", "o", "d", "c", "a", "s", "t",
       " ", "f", "o", "r", " " >>

\* scanDirectory, lines 120-163: list, classify, sort, read the clock.
\* A directory that cannot be listed makes main exit at line 99.
ListDirectory ==
    /\ pc = "scanDirectory"
    /\ listed' = TRUE
    /\ UNCHANGED runs
    /\ IF dirState /= "ok"
       THEN /\ err' = << [ file |-> <<>>, fault |-> "list" ] >>
            /\ Exit(1, "error scanning directory")
            /\ UNCHANGED scanLocals
       ELSE LET entries == ReadDir
                found == Classify(entries, Len(entries))
            IN  /\ podcast' = [ Title |-> Base(directory),
                                Description |-> Str_DescPrefix \o Base(directory),
                                Episodes |-> <<>>,
                                CoverArtURL |-> <<>> ]
                /\ audioFiles' = SortStrings(found.audioFiles)
                /\ coverArtFile' = found.coverArtFile
                /\ now' = clock
                /\ UNCHANGED err
                /\ Running("processAudioFile")
    /\ UNCHANGED << baseURL, args, disk, rssFile, rssBefore, clock, mainPodcast, rssContent,
                    opened, probed >>

\* The publication time taken from a fresh reading of the clock.
PubDateFor_ClockReread(i) == clock + i * Second

\* scanDirectory, line 166: the publication time of the audio file at
\* index i, zero-based.
PubDateFor(i) == now + i * Second

\* ProcessNextFile skipping a file that fails instead of returning.
ProcessNextFile_SkipFailed ==
    /\ pc = "processAudioFile"
    /\ Len(podcast.Episodes) < Len(audioFiles)
    /\ LET i == Len(podcast.Episodes)
           filename == audioFiles[i + 1]
           fullPath == Join(directory, filename)
       IN  \E fault \in Faults, dt \in Elapsed :
            /\ clock' = clock + dt
            /\ opened' = opened \cup { filename }
            /\ probed' = IF fault \in { "none", "probe" } THEN probed \cup { filename } ELSE probed
            /\ IF fault /= "none"
               THEN /\ err' = << [ file |-> filename, fault |-> fault ] >>
                    /\ audioFiles' = [ k \in 1..(Len(audioFiles) - 1) |->
                                        IF k <= i THEN audioFiles[k] ELSE audioFiles[k + 1] ]
                    /\ UNCHANGED podcast
               ELSE /\ podcast' = [ podcast EXCEPT !.Episodes =
                            Append(@, processAudioFile(fullPath, baseURL, directory,
                                                       PubDateFor(i), i + 1, meta[filename])) ]
                    /\ UNCHANGED << err, audioFiles >>
            /\ Running("processAudioFile")
    /\ UNCHANGED << listed, runs >>
    /\ UNCHANGED << baseURL, args, disk, rssFile, rssBefore, now, coverArtFile,
                    mainPodcast, rssContent >>

\* scanDirectory, lines 164-171, one iteration: processAudioFile on the
\* next audio file.  A failure returns (nil, err) and main exits at line 99.
ProcessNextFile ==
    /\ pc = "processAudioFile"
    /\ Len(podcast.Episodes) < Len(audioFiles)
    /\ LET i == Len(podcast.Episodes)
           filename == audioFiles[i + 1]
           fullPath == Join(directory, filename)
       IN  \E fault \in Faults, dt \in Elapsed :
            /\ clock' = clock + dt
            /\ opened' = opened \cup { filename }
            /\ probed' = IF fault \in { "none", "probe" } THEN probed \cup { filename } ELSE probed
            /\ IF fault /= "none"
               THEN /\ err' = << [ file |-> filename, fault |-> fault ] >>
                    /\ Exit(1, "error scanning directory")
                    /\ UNCHANGED podcast
               ELSE /\ podcast' = [ podcast EXCEPT !.Episodes =
                            Append(@, processAudioFile(fullPath, baseURL, directory,
                                                       PubDateFor(i), i + 1, meta[filename])) ]
                    /\ UNCHANGED err
                    /\ Running("processAudioFile")
    /\ UNCHANGED << listed, runs >>
    /\ UNCHANGED << baseURL, args, disk, rssFile, rssBefore, now, audioFiles, coverArtFile,
                    mainPodcast, rssContent >>

\* FinishScan without main's check for an empty episode list.
FinishScan_NoEmptyCheck ==
    /\ pc = "processAudioFile"
    /\ Len(podcast.Episodes) = Len(audioFiles)
    /\ LET p == IF coverArtFile /= <<>>
                THEN [ podcast EXCEPT !.CoverArtURL = fileURL(baseURL, directory, coverArtFile) ]
                ELSE podcast
       IN  /\ podcast' = p
           /\ mainPodcast' = << p >>
           /\ Running("generateRSS")
    /\ UNCHANGED << listed, runs >>
    /\ UNCHANGED << baseURL, args, disk, rssFile, rssBefore, clock, now, audioFiles,
                    coverArtFile, err, rssContent, opened, probed >>

\* scanDirectory, lines 173-181, and main, lines 96-105: the cover-art
\* URL, the return of the podcast, the check for an empty episode list.
FinishScan ==
    /\ pc = "processAudioFile"
    /\ Len(podcast.Episodes) = Len(audioFiles)
    /\ LET p == IF coverArtFile /= <<>>
                THEN [ podcast EXCEPT !.CoverArtURL = fileURL(baseURL, directory, coverArtFile) ]
                ELSE podcast
       IN  /\ podcast' = p
           /\ mainPodcast' = << p >>
           /\ IF Len(p.Episodes) = 0 THEN Exit(1, "no audio files found")
              ELSE Running("generateRSS")
    /\ UNCHANGED << listed, runs >>
    /\ UNCHANGED << baseURL, args, disk, rssFile, rssBefore, clock, now, audioFiles,
                    coverArtFile, err, rssContent, opened, probed >>

\* main, lines 107-108: generateRSS, which reads the clock for
\* lastBuildDate and may find xml.MarshalIndent failing.
GenerateRSS ==
    /\ pc = "generateRSS"
    /\ \E marshalFails \in BOOLEAN :
        rssContent' = generateRSS(mainPodcast[1], clock, marshalFails)
    /\ Running("WriteFile")
    /\ UNCHANGED << listed, runs >>
    /\ UNCHANGED << baseURL, args, disk, rssFile, rssBefore, clock, scanLocals, mainPodcast,
                    err, opened, probed >>

\* main, lines 110-118: os.WriteFile creates or truncates podcast.rss and
\* writes the content; it can fail before the file is opened, leaving it
\* alone, or after, leaving it truncated.
WriteFile ==
    /\ pc = "WriteFile"
    /\ \E result \in { "written", "not opened", "truncated" } :
        IF result = "written"
        THEN /\ rssFile' = [ exists |-> TRUE, content |-> rssContent ]
             /\ Exit(0, "generated")
        ELSE /\ rssFile' = IF result = "truncated"
                           THEN [ exists |-> TRUE, content |-> <<>> ]
                           ELSE rssFile
             /\ Exit(1, "error writing RSS file")
    /\ UNCHANGED << listed, runs >>
    /\ UNCHANGED << baseURL, args, disk, rssBefore, clock, scanLocals, mainPodcast, err,
                    rssContent, opened, probed >>

Next ==
    \/ CheckArguments
    \/ ListDirectory
    \/ ProcessNextFile
    \/ FinishScan
    \/ GenerateRSS
    \/ WriteFile

Spec == Init /\ [][Next]_vars

\* The same command is started again after a run that ended with exit code
\* 0: the directory is as that run left it, main's variables are fresh.
RunAgain ==
    /\ pc = "exit"
    /\ exitCode = 0
    /\ run = 1
    /\ run' = 2
    /\ firstRun' = << [ baseURL |-> baseURL, args |-> args, audioFiles |-> audioFiles,
                        coverArtFile |-> coverArtFile, podcast |-> mainPodcast[1] ] >>
    /\ pc' = "main"
    /\ baseURL' = <<>>
    /\ args' = <<>>
    /\ rssBefore' = rssFile
    /\ now' = 0
    /\ audioFiles' = <<>>
    /\ coverArtFile' = <<>>
    /\ podcast' = [ Title |-> <<>>, Description |-> <<>>, Episodes |-> <<>>, CoverArtURL |-> <<>> ]
    /\ mainPodcast' = <<>>
    /\ err' = <<>>
    /\ rssContent' = <<>>
    /\ opened' = {}
    /\ probed' = {}
    /\ listed' = FALSE
    /\ exitCode' = -1
    /\ outcome' = "running"
    /\ UNCHANGED << disk, rssFile, clock >>

NextAgain ==
    \/ Next
    \/ RunAgain

\* A run and, after its success, a second run of the same command.
SpecAgain == Init /\ [][NextAgain]_vars

SpecFile == InitFile /\ [][Next]_vars


(***************************************************************************)
(* What the properties speak of.                                           *)
(***************************************************************************)
\* The entries of the directory, podcast.rss among them when it exists.
DirectoryEntries == files \cup (IF rssFile.exists THEN { File(Name_rss) } ELSE {})

\* The non-directory entries whose lower-cased name ends in one of the
\* extensions.
EntriesEndingIn(exts) ==
    { e \in DirectoryEntries :
        /\ ~ e.isDir
        /\ \E x \in exts : HasSuffix(ToLower(e.name), x) }

AudioEntryNames == { e.name : e \in EntriesEndingIn(supportedAudioExts) }

ScanSucceeded == mainPodcast /= <<>>

Episodes == podcast.Episodes

\* The feed main has rendered, once generateRSS has run and has not failed.
Rendered == pc \in { "WriteFile", "exit" } /\ rssContent /= <<>>

Items == rssContent[1].Channel.Items

(***************************************************************************)
(* C1.  When scanDirectory succeeds, the episodes are exactly the          *)
(* listing's non-directory entries with a supported audio extension, in    *)
(* ascending byte order of their filenames, and the episode at position k  *)
(* has episode number k; a rendered feed has one item per audio file,      *)
(* numbered 1..N in that order.                                            *)
(***************************************************************************)
C1_EpisodesAreSortedAudioFiles ==
    /\ ScanSucceeded =>
        LET eps == mainPodcast[1].Episodes
        IN  /\ Len(eps) = Cardinality(AudioEntryNames)
            /\ { eps[k].FilePath : k \in 1..Len(eps) }
                 = { Join(directory, n) : n \in AudioEntryNames }
            /\ \A k \in 1..Len(eps) : eps[k].EpisodeNum = k
            /\ \A k \in 1..(Len(eps) - 1) :
                 StrLess(Base(eps[k].FilePath), Base(eps[k + 1].FilePath))
    /\ Rendered =>
        /\ Len(Items) = Cardinality(AudioEntryNames)
        /\ \A k \in 1..Len(Items) :
             /\ Items[k].ItunesEpisode = k
             /\ Items[k].GUID = mainPodcast[1].Episodes[k].URL

\* A feed of two audio files was written from a directory that also holds a
\* directory entry.
C1_Witness ==
    /\ pc = "exit"
    /\ exitCode = 0
    /\ rssFile.content /= <<>>
    /\ Len(rssFile.content[1].Channel.Items) = 2
    /\ \E e \in files : e.isDir

(***************************************************************************)
(* C2.  The episode at sorted position k has publication time              *)
(* now + (k-1) seconds, where now is the clock's value when the scan       *)
(* listed the directory: consecutive episodes are exactly one second       *)
(* apart, and now does not change while files are processed.               *)
(***************************************************************************)
C2_PubDateLadder ==
    /\ [](\A k \in 1..Len(Episodes) :
            /\ Episodes[k].PubDate = now + (k - 1) * Second
            /\ k > 1 => Episodes[k].PubDate - Episodes[k - 1].PubDate = Second)
    /\ [][ /\ (pc = "scanDirectory" /\ pc' = "processAudioFile") => now' = clock
           /\ pc /= "scanDirectory" => now' = now ]_vars

\* Three episodes were built while the clock moved on between them.
C2_Witness ==
    /\ Len(Episodes) = 3
    /\ clock > now + 2 * Second
    /\ Episodes[3].PubDate = now + 2 * Second

(***************************************************************************)
(* C3.  When opening, tag parsing or probing fails for an audio file, the  *)
(* scan returns no podcast, the run ends with exit code 1 and podcast.rss  *)
(* is as the run found it; podcast.rss changes only in the write step,     *)
(* after every audio file has been opened, probed and made an episode.     *)
(***************************************************************************)
C3_AllOrNothing ==
    /\ []((err /= <<>> /\ err[1].fault \in { "open", "tag", "probe" }) =>
            /\ pc = "exit"
            /\ exitCode = 1
            /\ mainPodcast = <<>>
            /\ rssFile = rssBefore)
    /\ [][ rssFile' /= rssFile =>
            /\ pc = "WriteFile"
            /\ err = <<>>
            /\ Len(Episodes) = Cardinality(AudioEntryNames)
            /\ opened = AudioEntryNames
            /\ probed = AudioEntryNames ]_vars

\* The probe failed on the third file, after two episodes were built, in a
\* directory that already held a podcast.rss.
C3_Witness ==
    /\ err /= <<>>
    /\ err[1].fault = "probe"
    /\ Len(Episodes) = 2
    /\ rssBefore.exists
    /\ rssFile = rssBefore
    /\ exitCode = 1


(***************************************************************************)
(* C4.  A serialization fault in the renderer ends the run with a          *)
(* non-zero exit code and without reporting a generated feed, and a run    *)
(* that ends with exit code 0 has written a podcast.rss that holds the     *)
(* feed with one item per episode.                                         *)
(***************************************************************************)
RenderFault ==
    /\ pc \in { "WriteFile", "exit" }
    /\ ScanSucceeded
    /\ Len(mainPodcast[1].Episodes) > 0
    /\ rssContent = <<>>

C4_RenderFaultIsFatal ==
    /\ (RenderFault /\ pc = "exit") => (exitCode /= 0 /\ outcome /= "generated")
    /\ exitCode = 0 =>
        /\ rssFile.exists
        /\ rssFile.content /= <<>>
        /\ Len(rssFile.content[1].Channel.Items) = Len(mainPodcast[1].Episodes)

(***************************************************************************)
(* C5.  In a readable directory without a non-directory entry of a         *)
(* supported audio extension, no file is opened or probed, nothing is      *)
(* rendered or written, and a run that gets to the scan ends with exit     *)
(* code 1 through "no audio files found", after a scan that succeeded      *)
(* with zero episodes and without a scan error.                            *)
(***************************************************************************)
C5_NoAudioIsItsOwnFailure ==
    (dirState = "ok" /\ AudioEntryNames = {}) =>
        /\ opened = {}
        /\ probed = {}
        /\ err = <<>>
        /\ rssContent = <<>>
        /\ rssFile = rssBefore
        /\ pc \notin { "generateRSS", "WriteFile" }
        /\ (pc = "exit" /\ outcome \notin { "base-url required", "usage" }) =>
            /\ outcome = "no audio files found"
            /\ exitCode = 1
            /\ ScanSucceeded
            /\ mainPodcast[1].Episodes = <<>>

\* The run ended on "no audio files found" in a directory that holds a
\* subdirectory named k.mp3, a file named mp3 and an old podcast.rss.
C5_Witness ==
    /\ pc = "exit"
    /\ outcome = "no audio files found"
    /\ Dir(Name_kdir) \in files
    /\ File(Name_noext) \in files
    /\ rssFile.exists

(***************************************************************************)
(* C6.  An episode's title is the tag's title when that is non-empty and   *)
(* the filename up to its last dot otherwise; its description is the       *)
(* tag's comment when that is non-empty and is not "iTunPGAP", and the     *)
(* episode's title otherwise.                                              *)
(***************************************************************************)
StemOf(name) ==
    LET dots == { i \in 1..Len(name) : name[i] = "." }
    IN  IF dots = {} THEN name
        ELSE SubSeq(name, 1, (CHOOSE i \in dots : \A j \in dots : j <= i) - 1)

C6_TitleAndDescription ==
    \A k \in 1..Len(Episodes) :
        LET ep == Episodes[k]
            tag == meta[audioFiles[k]]
        IN  /\ ep.Title = IF tag.title /= <<>> THEN tag.title ELSE StemOf(audioFiles[k])
            /\ ep.Description =
                 IF tag.comment = <<>> \/ tag.comment = << "i", "T", "u", "n", "P", "G", "A", "P" >>
                 THEN ep.Title
                 ELSE tag.comment

\* An episode of "c d.m4b" with an empty tag title and the comment
\* "iTunPGAP": title and description are both "c d".
C6_Witness ==
    \E k \in 1..Len(Episodes) :
        /\ audioFiles[k] = Name_cd
        /\ meta[Name_cd].title = <<>>
        /\ meta[Name_cd].comment = Str_iTunPGAP
        /\ Episodes[k].Title = << "c", " ", "d" >>
        /\ Episodes[k].Description = << "c", " ", "d" >>

(***************************************************************************)
(* C7.  Every episode has a non-empty title and a non-empty description.   *)
(***************************************************************************)
C7_TitleAndDescriptionNonEmpty ==
    \A k \in 1..Len(Episodes) :
        /\ Episodes[k].Title /= <<>>
        /\ Episodes[k].Description /= <<>>

(***************************************************************************)
(* C8.  An item of an episode of duration 0 has no duration element.  An   *)
(* item of an episode of duration d > 0 has one, and with s the whole      *)
(* seconds of d its text is H:MM:SS when s >= 3600 and M:SS otherwise:     *)
(* decimal fields, the first without padding, the others of two digits     *)
(* and at most 59, which add up to s.  3725 s gives 1:02:05, 45 s gives    *)
(* 0:45 and 3600 s gives 1:00:00.                                          *)
(***************************************************************************)
RECURSIVE Split(_, _)
Split(text, sep) ==
    LET at == { i \in 1..Len(text) : text[i] = sep }
    IN  IF at = {} THEN << text >>
        ELSE LET i == CHOOSE j \in at : \A m \in at : j <= m
             IN  << SubSeq(text, 1, i - 1) >> \o Split(SubSeq(text, i + 1, Len(text)), sep)

IsNumber(f) ==
    /\ Len(f) >= 1
    /\ \A i \in 1..Len(f) : Code(f[i]) >= 48 /\ Code(f[i]) <= 57

RECURSIVE Value(_)
Value(f) ==
    IF f = <<>> THEN 0
    ELSE 10 * Value(SubSeq(f, 1, Len(f) - 1)) + (Code(f[Len(f)]) - 48)

Unpadded(f) == IsNumber(f) /\ (Len(f) = 1 \/ f[1] /= "0")

TwoDigits(f) == IsNumber(f) /\ Len(f) = 2 /\ Value(f) <= 59

DurationText(text, s) ==
    LET f == Split(text, ":")
    IN  IF s >= 3600
        THEN /\ Len(f) = 3
             /\ Unpadded(f[1]) /\ TwoDigits(f[2]) /\ TwoDigits(f[3])
             /\ Value(f[1]) * 3600 + Value(f[2]) * 60 + Value(f[3]) = s
        ELSE /\ Len(f) = 2
             /\ Unpadded(f[1]) /\ TwoDigits(f[2])
             /\ Value(f[1]) * 60 + Value(f[2]) = s

C8_DurationElement ==
    Rendered =>
        \A k \in 1..Len(Items) :
            LET d == mainPodcast[1].Episodes[k].Duration
                element == Items[k].ItunesDuration
            IN  /\ d = 0 => element = <<>>
                /\ d > 0 => (Len(element) = 1 /\ DurationText(element[1], d \div 1000))
                /\ d = 3725000 => element = << << "1", ":", "0", "2", ":", "0", "5" >> >>
                /\ d = 45000 => element = << << "0", ":", "4", "5" >> >>
                /\ d = 3600000 => element = << << "1", ":", "0", "0", ":", "0", "0" >> >>

\* A rendered item of an episode of 3725 seconds, with 1:02:05.
C8_Witness ==
    /\ Rendered
    /\ \E k \in 1..Len(Items) :
        /\ mainPodcast[1].Episodes[k].Duration = 3725 * Second
        /\ Items[k].ItunesDuration = << << "1", ":", "0", "2", ":", "0", "5" >> >>

(***************************************************************************)
(* C9.  An episode's URL is the base URL less one trailing slash, "/",     *)
(* the percent-encoded base name of the directory, "/", the                *)
(* percent-encoded filename; percent-decoding its last two path segments   *)
(* gives back the directory's base name and the filename; no two episodes  *)
(* of a podcast have the same URL; an item's guid and enclosure URL are    *)
(* both its episode's URL.                                                 *)
(***************************************************************************)
HexValue(c) == CHOOSE v \in 0..15 : UpperHex[v + 1] = c

IsHex(c) == \E v \in 0..15 : UpperHex[v + 1] = c

RECURSIVE PathUnescape(_)
PathUnescape(s) ==
    IF s = <<>> THEN <<>>
    ELSE IF Head(s) /= "%" THEN << Head(s) >> \o PathUnescape(Tail(s))
    ELSE IF /\ Len(s) >= 3
            /\ IsHex(s[2]) /\ IsHex(s[3])
            /\ 16 * HexValue(s[2]) + HexValue(s[3]) \in 32..126
         THEN << Chr(16 * HexValue(s[2]) + HexValue(s[3])) >> \o PathUnescape(SubSeq(s, 4, Len(s)))
         ELSE << "invalid escape" >>

LessOneTrailingSlash(u) ==
    IF u /= <<>> /\ u[Len(u)] = "/" THEN SubSeq(u, 1, Len(u) - 1) ELSE u

C9_EpisodeURLs ==
    /\ \A k \in 1..Len(Episodes) :
        LET u == Episodes[k].URL
            segments == Split(u, "/")
            n == Len(segments)
        IN  /\ u = LessOneTrailingSlash(baseURL) \o << "/" >> \o PathEscape(Base(directory))
                     \o << "/" >> \o PathEscape(audioFiles[k])
            /\ n >= 3
            /\ PathUnescape(segments[n - 1]) = Base(directory)
            /\ PathUnescape(segments[n]) = audioFiles[k]
            /\ \A j \in 1..Len(Episodes) : j /= k => Episodes[j].URL /= u
    /\ Rendered =>
        \A k \in 1..Len(Items) :
            /\ Items[k].GUID = Items[k].Enclosure.URL
            /\ Items[k].GUID = mainPodcast[1].Episodes[k].URL

\* A rendered feed of two or more episodes, "%20.aac" among them, of the
\* directory "/s/my dir/" under a base URL that ends in a slash.
C9_Witness ==
    /\ Rendered
    /\ Len(Items) >= 2
    /\ \E k \in 1..Len(audioFiles) : audioFiles[k] = Name_pct
    /\ directory = Dir_my
    /\ baseURL = Url_hs

(***************************************************************************)
(* C10.  After a successful scan the podcast has a cover-art URL exactly   *)
(* when the directory holds a non-directory entry with extension jpg,      *)
(* jpeg or png in any case, and the URL is that of the first such entry    *)
(* of the listing; the rendered channel has an image element exactly when  *)
(* the URL is set, and the element carries it.                             *)
(***************************************************************************)
ImageEntries == EntriesEndingIn(supportedImageExts)

FirstImage ==
    LET listing == ReadDir
        at == { i \in 1..Len(listing) : listing[i] \in ImageEntries }
    IN  listing[CHOOSE i \in at : \A j \in at : i <= j]

C10_CoverArt ==
    ScanSucceeded =>
        LET cover == mainPodcast[1].CoverArtURL
        IN  /\ cover /= <<>> <=> ImageEntries /= {}
            /\ ImageEntries /= {} =>
                 cover = LessOneTrailingSlash(baseURL) \o << "/" >> \o PathEscape(Base(directory))
                           \o << "/" >> \o PathEscape(FirstImage.name)
            /\ Rendered =>
                 LET image == rssContent[1].Channel.ItunesImage
                 IN  /\ image /= <<>> <=> cover /= <<>>
                     /\ image /= <<>> => image = << [ Href |-> cover ] >>

\* A rendered feed of a directory with two images: the channel's image is
\* H.JPEG, which the listing has before g.jpg.
C10_Witness ==
    /\ Rendered
    /\ { File(Name_g), File(Name_H) } \subseteq files
    /\ rssContent[1].Channel.ItunesImage /= <<>>
    /\ rssContent[1].Channel.ItunesImage[1].Href
         = LessOneTrailingSlash(baseURL) \o << "/" >> \o PathEscape(Base(directory))
             \o << "/", "H", ".", "J", "P", "E", "G" >>

(***************************************************************************)
(* C11.  A run whose --base-url is empty, or whose positional arguments    *)
(* are not exactly one, or whose directory does not exist ends with exit   *)
(* code 1 without listing the directory, opening or probing a file, or     *)
(* touching podcast.rss; an empty --base-url is reported whatever the      *)
(* arguments and the directory are, and a wrong number of arguments        *)
(* whatever the directory is.                                              *)
(***************************************************************************)
C11_InputsCheckedBeforeScan ==
    pc /= "main" =>
        /\ baseURL = <<>> => outcome = "base-url required"
        /\ (baseURL /= <<>> /\ Len(args) /= 1) => outcome = "usage"
        /\ (baseURL /= <<>> /\ Len(args) = 1 /\ dirState = "missing") =>
             outcome = "directory does not exist"
        /\ (baseURL = <<>> \/ Len(args) /= 1 \/ dirState = "missing") =>
             /\ pc = "exit"
             /\ exitCode = 1
             /\ ~ listed
             /\ opened = {}
             /\ probed = {}
             /\ rssContent = <<>>
             /\ rssFile = rssBefore

\* A run with an empty --base-url, two positional arguments and a missing
\* directory: it ended on the base-url message.
C11_Witness ==
    /\ pc = "exit"
    /\ baseURL = <<>>
    /\ Len(args) = 2
    /\ dirState = "missing"
    /\ outcome = "base-url required"
    /\ exitCode = 1

(***************************************************************************)
(* C12.  In a second run of the same command, after a run that ended with  *)
(* exit code 0 and so left a podcast.rss in the directory, podcast.rss is  *)
(* neither an audio file nor the cover art: the scan finds the first       *)
(* run's audio file list and cover-art file, every episode has the first   *)
(* run's file, number and URL, a successful scan gives the first run's     *)
(* episode count and cover-art URL, and a second run that ends with exit   *)
(* code 0 has replaced podcast.rss by what it rendered, which when the     *)
(* renderer did not fail is a feed of as many items as the first run had   *)
(* episodes.                                                               *)
(***************************************************************************)
C12_OutputIsNotInput ==
    run = 2 =>
        LET before == firstRun[1]
        IN  /\ rssBefore.exists
            /\ listed =>
                 /\ File(Name_rss) \in { ReadDir[k] : k \in 1..Len(ReadDir) }
                 /\ audioFiles = before.audioFiles
                 /\ coverArtFile = before.coverArtFile
                 /\ \A k \in 1..Len(audioFiles) : audioFiles[k] /= Name_rss
                 /\ coverArtFile /= Name_rss
            /\ \A k \in 1..Len(Episodes) :
                 /\ Episodes[k].FilePath = before.podcast.Episodes[k].FilePath
                 /\ Episodes[k].EpisodeNum = before.podcast.Episodes[k].EpisodeNum
                 /\ Episodes[k].URL = before.podcast.Episodes[k].URL
            /\ ScanSucceeded =>
                 /\ Len(mainPodcast[1].Episodes) = Len(before.podcast.Episodes)
                 /\ mainPodcast[1].CoverArtURL = before.podcast.CoverArtURL
            /\ (pc = "exit" /\ exitCode = 0) =>
                 /\ rssFile = [ exists |-> TRUE, content |-> rssContent ]
                 /\ rssContent /= <<>> => Len(Items) = Len(before.podcast.Episodes)

\* A second run ended with exit code 0 after rendering a feed of two items
\* for a directory without an image.
C12_Witness ==
    /\ run = 2
    /\ pc = "exit"
    /\ exitCode = 0
    /\ rssContent /= <<>>
    /\ Len(rssFile.content[1].Channel.Items) = 2
    /\ Len(firstRun[1].podcast.Episodes) = 2
    /\ coverArtFile = <<>>

=============================================================================
